---- MODULE Spec2Model ----
(***************************************************************************)
(* Model of the analyzer stage of ubc-reddit-reporter (src/src/analyzer.py):*)
(* discovery of the week's posts in the store, per-post sentiment          *)
(* categorization through a Bedrock model, aggregation, one consolidated   *)
(* summarization call and the report write.                                *)
(*                                                                         *)
(* Conventions.                                                            *)
(*  - A Python dict is a record; a key that is absent from the dict is the *)
(*    value Missing (strings) or MissingNum (numbers).                     *)
(*  - A float with two decimals is an integer number of hundredths:        *)
(*    0.83 is 83, 66.67 percent is 6667.                                   *)
(*  - A raised exception is the record Raise(name).                        *)
(***************************************************************************)
EXTENDS Integers, Sequences, FiniteSets, TLC

VARIABLES
    pc,                        \* position of lambda_handler
    bucket_name,               \* module-level BUCKET_NAME
    CATEGORIZATION_MODEL_ID,   \* module-level model identifiers
    SUMMARIZATION_MODEL_ID,
    objects,                   \* what list_objects_v2 yields under raw_data/
    text_files,                \* result of get_text_files_from_last_week
    idx,                       \* number of text_files the loop has consumed
    sentiment_analyses,        \* lambda_handler locals
    texts_for_summarization,
    summarization_result,
    categorization,
    response,                  \* what lambda_handler returns
    trace,                     \* external calls made so far, in order
    fn_arg,                    \* argument and return value of a function
    fn_ret                     \* called on its own

handlerVars == <<pc, bucket_name, CATEGORIZATION_MODEL_ID, SUMMARIZATION_MODEL_ID,
                 objects, text_files, idx, sentiment_analyses,
                 texts_for_summarization, summarization_result, categorization,
                 response, trace>>
fnVars == <<fn_arg, fn_ret>>
vars == <<pc, bucket_name, CATEGORIZATION_MODEL_ID, SUMMARIZATION_MODEL_ID,
          objects, text_files, idx, sentiment_analyses,
          texts_for_summarization, summarization_result, categorization,
          response, trace, fn_arg, fn_ret>>

(***************************************************************************)
(* Bounds of the model.                                                    *)
(***************************************************************************)
MaxAnalyses == 4        \* longest list handed to categorize_sentiments alone
MaxTokens == 4          \* longest raw model output handed to a parser alone
MaxTexts == 52          \* longest list handed to summarize_texts_with_bedrock alone
MaxObjects == 2         \* most objects listed under raw_data/
MaxRuns == 3            \* most invocations writing reports to one bucket

(***************************************************************************)
(* Values.                                                                 *)
(***************************************************************************)
Missing == "<missing>"
MissingNum == -1
None == [none |-> TRUE]
Raise(name) == [raised |-> name]
IsRaise(v) == DOMAIN v = {"raised"}

Min(a, b) == IF a < b THEN a ELSE b
Max(a, b) == IF a > b THEN a ELSE b

\* Python round(x, 2) of the exact quotient n / d, as a number of hundredths
\* when n is given in hundredths: nearest integer, an exact tie to the even one.
RoundFloor(n, d) ==
    n \div d
Round(n, d) ==
    LET q == n \div d
        r == n % d
    IN  IF 2 * r < d THEN q
        ELSE IF 2 * r > d THEN q + 1
        ELSE IF q % 2 = 0 THEN q ELSE q + 1

\* str.upper() on the label strings that occur.
upper(s) ==
    CASE s \in {"POSITIVE", "Positive", "positive"} -> "POSITIVE"
      [] s \in {"NEGATIVE", "Negative", "negative"} -> "NEGATIVE"
      [] s \in {"NEUTRAL", "Neutral", "neutral"} -> "NEUTRAL"
      [] s \in {"MIXED", "Mixed", "mixed"} -> "MIXED"
      [] s \in {"ANGRY", "Angry", "angry"} -> "ANGRY"
      [] s = "" -> ""
      [] OTHER -> s

(***************************************************************************)
(* categorize_sentiments                                                   *)
(***************************************************************************)
\* The keys of SENTIMENT_CATEGORIES / sentiment_counts in insertion order.
LabelOrder == <<"POSITIVE", "NEGATIVE", "NEUTRAL", "MIXED">>
Labels == {LabelOrder[i] : i \in 1..4}

SENTIMENT_CATEGORIES ==
    [l \in Labels |->
        CASE l = "POSITIVE" -> "Positive"
          [] l = "NEGATIVE" -> "Negative"
          [] l = "NEUTRAL" -> "Neutral"
          [] l = "MIXED" -> "Mixed"]

\* analysis.get('sentiment', 'NEUTRAL').upper()
sentiment_of(analysis) ==
    upper(IF analysis.sentiment = Missing THEN "NEUTRAL" ELSE analysis.sentiment)

\* analysis.get('confidence', 0.5)
confidence_of(analysis) ==
    IF analysis.confidence = MissingNum THEN 50 ELSE analysis.confidence

\* the key of sentiment_counts that one analysis increments
counted_as_cased(analysis) ==
    IF analysis.sentiment \in Labels THEN analysis.sentiment ELSE "NEUTRAL"
counted_as(analysis) ==
    IF sentiment_of(analysis) \in Labels THEN sentiment_of(analysis) ELSE "NEUTRAL"

\* sentiment_counts after the loop over analyses
RECURSIVE sentiment_counts(_)
sentiment_counts(analyses) ==
    IF analyses = <<>> THEN [l \in Labels |-> 0]
    ELSE LET n == Len(analyses)
             before == sentiment_counts(SubSeq(analyses, 1, n - 1))
             k == counted_as(analyses[n])
         IN  [before EXCEPT ![k] = @ + 1]

RECURSIVE total_confidence(_)
total_confidence(analyses) ==
    IF analyses = <<>> THEN 0
    ELSE total_confidence(Tail(analyses)) + confidence_of(Head(analyses))

sentiment_details(analyses) ==
    [i \in 1..Len(analyses) |->
        [sentiment |-> sentiment_of(analyses[i]),
         confidence |-> confidence_of(analyses[i]),
         reasoning |-> IF analyses[i].reasoning = Missing THEN ""
                       ELSE analyses[i].reasoning]]

\* max(sentiment_counts.values())
max_count(counts) ==
    CHOOSE m \in {counts[l] : l \in Labels} : \A l \in Labels : counts[l] <= m

\* [k for k, v in sentiment_counts.items() if v == max_count][0]
overall_by_input(analyses, counts) ==
    IF analyses = <<>> THEN LabelOrder[1]
    ELSE LET i == CHOOSE j \in 1..Len(analyses) :
                     /\ counts[counted_as(analyses[j])] = max_count(counts)
                     /\ \A h \in 1..(j - 1) :
                            counts[counted_as(analyses[h])] # max_count(counts)
         IN  counted_as(analyses[i])
overall_label(analyses, counts) ==
    LET i == CHOOSE j \in 1..4 :
                 /\ counts[LabelOrder[j]] = max_count(counts)
                 /\ \A h \in 1..(j - 1) : counts[LabelOrder[h]] # max_count(counts)
    IN  LabelOrder[i]

\* round(count / total * 100, 2) if total > 0 else 0
percentage_floor(count, total) ==
    IF total > 0 THEN RoundFloor(count * 10000, total) ELSE 0
percentage(count, total) ==
    IF total > 0 THEN Round(count * 10000, total) ELSE 0

categorize_sentiments(analyses) ==
    LET counts == sentiment_counts(analyses)
        total == Len(analyses)
        avg_num == total_confidence(analyses)
    IN  [overall_sentiment |-> SENTIMENT_CATEGORIES[overall_label(analyses, counts)],
         sentiment_distribution |->
            [positive |-> counts["POSITIVE"], negative |-> counts["NEGATIVE"],
             neutral |-> counts["NEUTRAL"], mixed |-> counts["MIXED"]],
         total_texts_analyzed |-> total,
         average_confidence |-> IF total > 0 THEN Round(avg_num, total) ELSE 0,
         sentiment_percentages |->
            [positive |-> percentage(counts["POSITIVE"], total),
             negative |-> percentage(counts["NEGATIVE"], total),
             neutral |-> percentage(counts["NEUTRAL"], total),
             mixed |-> percentage(counts["MIXED"], total)],
         details |-> sentiment_details(analyses)]

(***************************************************************************)
(* categorize_sentiments called on its own, on every short list of results *)
(***************************************************************************)
AnalysisSamples ==
    { [sentiment |-> "POSITIVE", confidence |-> 90, reasoning |-> "r", file_key |-> Missing],
      [sentiment |-> "positive", confidence |-> 83, reasoning |-> Missing, file_key |-> Missing],
      [sentiment |-> "Negative", confidence |-> 60, reasoning |-> "r", file_key |-> Missing],
      [sentiment |-> "NEUTRAL", confidence |-> MissingNum, reasoning |-> "r", file_key |-> Missing],
      [sentiment |-> "mixed", confidence |-> 70, reasoning |-> "r", file_key |-> Missing],
      [sentiment |-> "angry", confidence |-> 100, reasoning |-> "r", file_key |-> Missing],
      [sentiment |-> Missing, confidence |-> 0, reasoning |-> "r", file_key |-> Missing] }

SeqsUpTo(S, n) == UNION {[1..k -> S] : k \in 0..n}

HandlerIdle ==
    /\ pc = "idle"
    /\ bucket_name = ""
    /\ CATEGORIZATION_MODEL_ID = ""
    /\ SUMMARIZATION_MODEL_ID = ""
    /\ objects = <<>>
    /\ text_files = <<>>
    /\ idx = 0
    /\ sentiment_analyses = <<>>
    /\ texts_for_summarization = <<>>
    /\ summarization_result = None
    /\ categorization = None
    /\ response = None
    /\ trace = <<>>

InitAgg ==
    /\ HandlerIdle
    /\ fn_arg \in SeqsUpTo(AnalysisSamples, MaxAnalyses)
    /\ fn_ret = None

CallCategorizeSentiments ==
    /\ fn_ret = None
    /\ fn_ret' = categorize_sentiments(fn_arg)
    /\ UNCHANGED <<fn_arg, handlerVars>>

NextAgg == CallCategorizeSentiments

SpecAgg == InitAgg /\ [][NextAgg]_vars

(***************************************************************************)
(* Raw model output.                                                       *)
(*                                                                         *)
(* A raw text is a sequence of tokens: an opening brace, a closing brace,  *)
(* a word of prose, or a fragment of JSON members ("key": value, ...).     *)
(* A JSON value is [t, s, n, raw]: its type, its string, its number in     *)
(* hundredths (or the length of a list), and for a Python str that is a    *)
(* whole raw text (t = "text") the tokens of that text.                    *)
(***************************************************************************)
Keys == {"sentiment", "confidence", "reasoning", "summary", "main_themes",
         "key_insights", "overall_tone", "total_texts_summarized"}

Absent == [t |-> "absent", s |-> "", n |-> 0, raw |-> <<>>]
Str(x) == [t |-> "str", s |-> x, n |-> 0, raw |-> <<>>]
Num(x) == [t |-> "num", s |-> "", n |-> x, raw |-> <<>>]
List(name, len) == [t |-> "list", s |-> name, n |-> len, raw |-> <<>>]
Text(tokens) == [t |-> "text", s |-> "", n |-> 0, raw |-> tokens]

EmptyDict == [k \in Keys |-> Absent]

LBrace == [kind |-> "{", word |-> "", frag |-> EmptyDict]
RBrace == [kind |-> "}", word |-> "", frag |-> EmptyDict]
Word(w) == [kind |-> "word", word |-> w, frag |-> EmptyDict]
Frag(d) == [kind |-> "members", word |-> "", frag |-> d]

\* str.lower() on the strings that occur in raw texts
lower(s) ==
    CASE s = "Good" -> "good"
      [] s = "Positive" -> "positive"
      [] s = "Negative" -> "negative"
      [] OTHER -> s

\* `word in s` for a lower-cased string s of a raw text
contains(s, word) ==
    \/ s = word
    \/ s = "sadly" /\ word = "sad"

\* the strings a token is written with
token_strings(token) ==
    IF token.kind = "word" THEN {token.word}
    ELSE IF token.kind = "members"
         THEN {token.frag[k].s : k \in {k2 \in Keys : token.frag[k2].t = "str"}}
                \cup {k \in Keys : token.frag[k].t # "absent"}
         ELSE {token.kind}

\* any(word in text_lower for word in words)
any_word_in(text, words) ==
    \E i \in 1..Len(text) : \E s \in token_strings(text[i]) : \E w \in words :
        contains(lower(s), w)

\* text.find('{') and text.rfind('}'), as token positions (0: not found)
find(text, kind) ==
    IF \E i \in 1..Len(text) : text[i].kind = kind
    THEN CHOOSE i \in 1..Len(text) :
            /\ text[i].kind = kind
            /\ \A j \in 1..(i - 1) : text[j].kind # kind
    ELSE 0
rfind(text, kind) ==
    IF \E i \in 1..Len(text) : text[i].kind = kind
    THEN CHOOSE i \in 1..Len(text) :
            /\ text[i].kind = kind
            /\ \A j \in (i + 1)..Len(text) : text[j].kind # kind
    ELSE 0

\* the dict built from JSON members read left to right (a repeated key
\* keeps its last value)
RECURSIVE members_dict(_)
members_dict(tokens) ==
    IF tokens = <<>> THEN EmptyDict
    ELSE LET n == Len(tokens)
             before == members_dict(SubSeq(tokens, 1, n - 1))
         IN  [k \in Keys |-> IF tokens[n].frag[k].t # "absent"
                             THEN tokens[n].frag[k] ELSE before[k]]

\* json.loads of the substring from the first '{' to the last '}'
json_loads(sub) ==
    IF /\ Len(sub) >= 2
       /\ sub[1].kind = "{"
       /\ sub[Len(sub)].kind = "}"
       /\ \A i \in 2..(Len(sub) - 1) : sub[i].kind = "members"
    THEN members_dict(SubSeq(sub, 2, Len(sub) - 1))
    ELSE Raise("JSONDecodeError")

\* float(value): the exception it raises ("" when it raises none), and the
\* number it returns
float_of_str(s) ==
    IF s = "0.8" THEN 80 ELSE MissingNum
float_error(v) ==
    CASE v.t = "num" -> ""
      [] v.t = "str" /\ float_of_str(v.s) # MissingNum -> ""
      [] v.t = "str" /\ float_of_str(v.s) = MissingNum -> "ValueError"
      [] OTHER -> "TypeError"
float(v) ==
    IF v.t = "num" THEN v.n ELSE float_of_str(v.s)

(***************************************************************************)
(* _parse_categorization_response                                          *)
(***************************************************************************)
POSITIVE_WORDS == {"positive", "good", "great", "excellent", "happy"}
NEGATIVE_WORDS == {"negative", "bad", "poor", "terrible", "sad"}
MIXED_WORDS == {"mixed", "both", "conflicting"}
FALLBACK_REASONING == "Parsed from text response (JSON parsing failed)"

categorization_fallback_negative_first(text) ==
    LET branch == IF any_word_in(text, NEGATIVE_WORDS) THEN <<"NEGATIVE", 70>>
                  ELSE IF any_word_in(text, POSITIVE_WORDS) THEN <<"POSITIVE", 70>>
                  ELSE IF any_word_in(text, MIXED_WORDS) THEN <<"MIXED", 60>>
                  ELSE <<"NEUTRAL", 50>>
    IN  [sentiment |-> branch[1], confidence |-> branch[2],
         reasoning |-> FALLBACK_REASONING]
categorization_fallback(text) ==
    LET branch == IF any_word_in(text, POSITIVE_WORDS) THEN <<"POSITIVE", 70>>
                  ELSE IF any_word_in(text, NEGATIVE_WORDS) THEN <<"NEGATIVE", 70>>
                  ELSE IF any_word_in(text, MIXED_WORDS) THEN <<"MIXED", 60>>
                  ELSE <<"NEUTRAL", 50>>
    IN  [sentiment |-> branch[1], confidence |-> branch[2],
         reasoning |-> FALLBACK_REASONING]

\* lines 453-459: the decoded dict with sentiment upper-cased and confidence
\* made a float; only the three keys the analyzer reads are kept
normalize_lenient(d) ==
    [sentiment |-> IF d.sentiment.t = "str" THEN upper(d.sentiment.s)
                   ELSE IF d.sentiment.t = "absent" THEN Missing ELSE "NEUTRAL",
     confidence |-> IF d.confidence.t = "absent" \/ float_error(d.confidence) # ""
                    THEN MissingNum ELSE float(d.confidence),
     reasoning |-> IF d.reasoning.t = "str" THEN d.reasoning.s ELSE Missing]
normalize(d) ==
    IF d.sentiment.t \notin {"absent", "str"} THEN Raise("AttributeError")
    ELSE IF d.confidence.t # "absent" /\ float_error(d.confidence) # ""
         THEN Raise(float_error(d.confidence))
    ELSE [sentiment |-> IF d.sentiment.t = "str" THEN upper(d.sentiment.s)
                        ELSE Missing,
          confidence |-> IF d.confidence.t = "absent" THEN MissingNum
                         ELSE float(d.confidence),
          reasoning |-> IF d.reasoning.t = "str" THEN d.reasoning.s ELSE Missing]

_parse_categorization_response(text) ==
    LET json_start == find(text, "{")
        json_last == rfind(text, "}")
    IN  IF json_start > 0 /\ json_last > json_start
        THEN LET decoded == json_loads(SubSeq(text, json_start, json_last))
             IN  IF IsRaise(decoded) THEN categorization_fallback(text)
                 ELSE normalize(decoded)
        ELSE categorization_fallback(text)

(***************************************************************************)
(* _parse_summarization_response                                           *)
(***************************************************************************)
backfill_keeping_total(d, text, total_texts) ==
    [summary |-> IF d.summary.t = "absent" THEN Text(text) ELSE d.summary,
     main_themes |-> IF d.main_themes.t = "absent" THEN List("", 0)
                     ELSE d.main_themes,
     key_insights |-> IF d.key_insights.t = "absent" THEN List("", 0)
                      ELSE d.key_insights,
     overall_tone |-> IF d.overall_tone.t = "absent" THEN Str("Not specified")
                      ELSE d.overall_tone,
     total_texts_summarized |-> IF d.total_texts_summarized.t = "absent" THEN total_texts
                                ELSE d.total_texts_summarized.n]
backfill(d, text, total_texts) ==
    [summary |-> IF d.summary.t = "absent" THEN Text(text) ELSE d.summary,
     main_themes |-> IF d.main_themes.t = "absent" THEN List("", 0)
                     ELSE d.main_themes,
     key_insights |-> IF d.key_insights.t = "absent" THEN List("", 0)
                      ELSE d.key_insights,
     overall_tone |-> IF d.overall_tone.t = "absent" THEN Str("Not specified")
                      ELSE d.overall_tone,
     total_texts_summarized |-> total_texts]

summarization_fallback(text, total_texts) ==
    [summary |-> Text(text), main_themes |-> List("", 0),
     key_insights |-> List("", 0), overall_tone |-> Str("Not specified"),
     total_texts_summarized |-> total_texts]

_parse_summarization_response(text, total_texts) ==
    LET json_start == find(text, "{")
        json_last == rfind(text, "}")
    IN  IF json_start > 0 /\ json_last > json_start
        THEN LET decoded == json_loads(SubSeq(text, json_start, json_last))
             IN  IF IsRaise(decoded) THEN summarization_fallback(text, total_texts)
                 ELSE backfill(decoded, text, total_texts)
        ELSE summarization_fallback(text, total_texts)

(***************************************************************************)
(* The two parsers called on their own, on every short raw text            *)
(***************************************************************************)
FullAnswer ==
    Frag([EmptyDict EXCEPT !["sentiment"] = Str("Negative"),
                           !["confidence"] = Num(90),
                           !["reasoning"] = Str("why")])
Tokens ==
    { LBrace, RBrace, Word("Good"), Word("sadly"), Word("both"),
      FullAnswer,
      Frag([EmptyDict EXCEPT !["sentiment"] = Str("Positive")]),
      Frag([EmptyDict EXCEPT !["sentiment"] = Num(500)]),
      Frag([EmptyDict EXCEPT !["confidence"] = Str("high")]),
      Frag([EmptyDict EXCEPT !["summary"] = Str("the week"),
                             !["overall_tone"] = Str("calm")]),
      Frag([EmptyDict EXCEPT !["main_themes"] = List("themes", 2),
                             !["key_insights"] = List("insights", 1)]),
      Frag([EmptyDict EXCEPT !["total_texts_summarized"] = Num(9900)]) }

InitParse ==
    /\ HandlerIdle
    /\ fn_arg \in [text : SeqsUpTo(Tokens, MaxTokens), total_texts : {0, 3}]
    /\ fn_ret = None

CallParseCategorization ==
    /\ fn_ret = None
    /\ fn_ret' = [fn |-> "_parse_categorization_response",
                  val |-> _parse_categorization_response(fn_arg.text)]
    /\ UNCHANGED <<fn_arg, handlerVars>>

CallParseSummarization ==
    /\ fn_ret = None
    /\ fn_ret' = [fn |-> "_parse_summarization_response",
                  val |-> _parse_summarization_response(fn_arg.text,
                                                         fn_arg.total_texts)]
    /\ UNCHANGED <<fn_arg, handlerVars>>

NextParse == CallParseCategorization \/ CallParseSummarization

SpecParse == InitParse /\ [][NextParse]_vars

(***************************************************************************)
(* Texts, store objects and discovery (get_text_files_from_last_week)      *)
(*                                                                         *)
(* A post text is [src, len, dots]: the first len characters of the text   *)
(* of the object listed at position src, followed by dots '.' characters.  *)
(* A store key is the sequence of its segments; its last segment is the    *)
(* extension.  The fields of a stored post are strings, as the fetcher     *)
(* writes them, given by their lengths.                                    *)
(***************************************************************************)
DAYS_WINDOW == 7            \* timedelta(days=7)
MAX_LENGTH == 5000          \* max_length
EXCERPT_LENGTH == 1000      \* text[:1000]
SUMMARY_CAP == 50           \* texts[:50]

PostText(src, len) == [src |-> src, len |-> len, dots |-> 0]
text_len(text) == text.len + text.dots
\* text[:k]
text_prefix(text, k) ==
    [src |-> text.src,
     len |-> Min(text.len, k),
     dots |-> Max(0, Min(text.dots, k - text.len))]
\* text + "..."
text_ellipsis(text) == [text EXCEPT !.dots = @ + 3]

endswith(key, suffix) == Len(key) > 0 /\ key[Len(key)] = suffix
\* 'summary' in key
summary_in(key) == \E i \in 1..Len(key) : key[i] \in {"summary", "summary_"}

\* obj['LastModified'] >= one_week_ago, with the age of obj in days at the
\* instant discovery starts
modified_in_window_strict(obj) == obj.age < DAYS_WINDOW
modified_in_window(obj) == obj.age <= DAYS_WINDOW

selected(obj) ==
    /\ modified_in_window(obj)
    /\ endswith(obj.key, ".json")
    /\ ~summary_in(obj.key)

\* lines 68-71: content, else title and selftext joined and stripped
post_content(src, post_data) ==
    IF post_data.content > 0 THEN PostText(src, post_data.content)
    ELSE IF post_data.title > 0 /\ post_data.selftext > 0
         THEN PostText(src, post_data.title + 2 + post_data.selftext)
         ELSE PostText(src, post_data.title + post_data.selftext)

RECURSIVE get_text_files_from_last_week(_, _)
get_text_files_from_last_week(objs, n) ==
    IF n = 0 THEN <<>>
    ELSE LET before == get_text_files_from_last_week(objs, n - 1)
             obj == objs[n]
         IN  IF selected(obj) /\ obj.readable
             THEN Append(before, [key |-> obj.key,
                                  content |-> post_content(n, obj.post_data),
                                  last_modified |-> obj.age])
             ELSE before

(***************************************************************************)
(* External calls.  Every call the analyzer makes is appended to trace.    *)
(***************************************************************************)
Call(name, key, model_id, family, texts, total) ==
    [call |-> name, key |-> key, model_id |-> model_id, family |-> family,
     texts |-> texts, total |-> total, response |-> "", outcome |-> "returned"]
Raised(call) == [call EXCEPT !.outcome = "raised"]
\* the request of a model call together with what the model service answered
Answered(call, bedrock) == [call EXCEPT !.response = bedrock.kind]
ListCall == Call("list_objects_v2", <<"raw_data/">>, "", "", <<>>, 0)
GetCall(key) == Call("get_object", key, "", "", <<>>, 0)
PutCall(key) == Call("put_object", key, "", "", <<>>, 0)
InvokeCall(purpose, model_id, family, texts, total) ==
    Call(purpose, <<>>, model_id, family, texts, total)

RECURSIVE get_object_calls(_, _)
get_object_calls(objs, n) ==
    IF n = 0 THEN <<>>
    ELSE IF selected(objs[n])
         THEN Append(get_object_calls(objs, n - 1), GetCall(objs[n].key))
         ELSE get_object_calls(objs, n - 1)

Calls(name) == {i \in 1..Len(trace) : trace[i].call = name}

(***************************************************************************)
(* Model adapter: dispatch on the identifier prefix, request, unwrapping   *)
(*                                                                         *)
(* A Bedrock response is [kind, raw]: the call raised (ClientError), the   *)
(* body lacks the family's field (no_field: no or empty content, no        *)
(* generation, no or empty results), the first block lacks its text       *)
(* (no_text), or the field holds the raw text (ok).                        *)
(***************************************************************************)
CLAUDE_DEFAULT == "anthropic.claude-3-sonnet-20240229-v1:0"
LLAMA_DEFAULT == "meta.llama3-8b-instruct-v1:0"
TITAN_ID == "amazon.titan-text-express-v1"
OTHER_ID == "mistral.mistral-7b-instruct-v0:2"
ModelIds == {CLAUDE_DEFAULT, LLAMA_DEFAULT, TITAN_ID, OTHER_ID}

startswith(model_id, prefix) ==
    \/ model_id = CLAUDE_DEFAULT /\ prefix = "anthropic.claude"
    \/ model_id = LLAMA_DEFAULT /\ prefix = "meta.llama"
    \/ model_id = TITAN_ID /\ prefix = "amazon.titan"

categorization_family(model_id) ==
    IF startswith(model_id, "anthropic.claude") THEN "claude"
    ELSE IF startswith(model_id, "meta.llama") THEN "llama"
    ELSE IF startswith(model_id, "amazon.titan") THEN "titan"
    ELSE "llama"

summarization_family_llama_default(model_id) ==
    IF startswith(model_id, "anthropic.claude") THEN "claude"
    ELSE IF startswith(model_id, "meta.llama") THEN "llama"
    ELSE IF startswith(model_id, "amazon.titan") THEN "titan"
    ELSE "llama"
summarization_family(model_id) ==
    IF startswith(model_id, "anthropic.claude") THEN "claude"
    ELSE IF startswith(model_id, "meta.llama") THEN "llama"
    ELSE IF startswith(model_id, "amazon.titan") THEN "titan"
    ELSE "claude"

\* the raw text a family's reader hands to the parser, or the exception
unwrap(family, bedrock) ==
    IF bedrock.kind = "ClientError" THEN Raise("ClientError")
    ELSE IF family = "llama"
         THEN [text |-> IF bedrock.kind = "ok" THEN bedrock.raw ELSE <<>>]
         ELSE IF bedrock.kind = "no_field" THEN Raise("ValueError")
              ELSE [text |-> IF bedrock.kind = "ok" THEN bedrock.raw ELSE <<>>]

\* what the call returns or raises, given the response of the model
categorize_sentiment_with_bedrock(text, model_id, bedrock) ==
    LET unwrapped == unwrap(categorization_family(model_id), bedrock)
    IN  IF IsRaise(unwrapped) THEN unwrapped
        ELSE _parse_categorization_response(unwrapped.text)

\* combined_text: "\n\n---\n\n".join(texts[:50])
combined_text_all(texts) ==
    texts
combined_text(texts) ==
    SubSeq(texts, 1, Min(SUMMARY_CAP, Len(texts)))

total_texts(texts) ==
    Len(texts)

summarize_texts_with_bedrock(texts, model_id, bedrock) ==
    LET unwrapped == unwrap(summarization_family(model_id), bedrock)
    IN  IF IsRaise(unwrapped) THEN unwrapped
        ELSE _parse_summarization_response(unwrapped.text, total_texts(texts))

categorize_request(text, model_id) ==
    InvokeCall("categorize", model_id, categorization_family(model_id), <<text>>, 1)
summarize_request(texts, model_id) ==
    InvokeCall("summarize", model_id, summarization_family(model_id),
               combined_text(texts), total_texts(texts))

(***************************************************************************)
(* summarize_texts_with_bedrock called on its own, on lists longer than    *)
(* the cap                                                                 *)
(***************************************************************************)
SummaryAnswer ==
    <<LBrace,
      Frag([EmptyDict EXCEPT !["summary"] = Str("the week"),
                             !["overall_tone"] = Str("calm"),
                             !["total_texts_summarized"] = Num(9900)]),
      RBrace>>
SummarizationResponses ==
    { [kind |-> "ClientError", raw |-> <<>>],
      [kind |-> "no_field", raw |-> <<>>],
      [kind |-> "no_text", raw |-> <<>>],
      [kind |-> "ok", raw |-> SummaryAnswer],
      [kind |-> "ok", raw |-> <<Word("both")>>] }

Excerpts(n) == [i \in 1..n |-> PostText(i, 10 + i)]

InitSum ==
    /\ HandlerIdle
    /\ fn_arg \in [texts : {Excerpts(n) : n \in 0..MaxTexts},
                   model_id : ModelIds,
                   bedrock : SummarizationResponses]
    /\ fn_ret = None

CallSummarizeTexts ==
    /\ fn_ret = None
    /\ fn_ret' = [fn |-> "summarize_texts_with_bedrock",
                  request |-> summarize_request(fn_arg.texts, fn_arg.model_id),
                  val |-> summarize_texts_with_bedrock(fn_arg.texts, fn_arg.model_id,
                                                       fn_arg.bedrock)]
    /\ UNCHANGED <<fn_arg, handlerVars>>

NextSum == CallSummarizeTexts

SpecSum == InitSum /\ [][NextSum]_vars

(***************************************************************************)
(* lambda_handler                                                          *)
(***************************************************************************)
ObjectSamples ==
    { [key |-> <<"raw_data/", "post_a", ".json">>, age |-> 1, readable |-> TRUE,
       post_data |-> [content |-> 12, title |-> 4, selftext |-> 0]],
      [key |-> <<"raw_data/", "post_b", ".json">>, age |-> 7, readable |-> TRUE,
       post_data |-> [content |-> 0, title |-> 5, selftext |-> 5000]],
      [key |-> <<"raw_data/", "post_c", ".json">>, age |-> 2, readable |-> TRUE,
       post_data |-> [content |-> 0, title |-> 0, selftext |-> 0]],
      [key |-> <<"raw_data/", "post_d", ".json">>, age |-> 3, readable |-> TRUE,
       post_data |-> [content |-> 5000, title |-> 0, selftext |-> 0]],
      [key |-> <<"raw_data/", "post_e", ".json">>, age |-> 8, readable |-> TRUE,
       post_data |-> [content |-> 12, title |-> 0, selftext |-> 0]],
      [key |-> <<"raw_data/", "post_f", ".json">>, age |-> 1, readable |-> FALSE,
       post_data |-> [content |-> 0, title |-> 0, selftext |-> 0]],
      [key |-> <<"raw_data/", "notes", ".txt">>, age |-> 1, readable |-> TRUE,
       post_data |-> [content |-> 12, title |-> 0, selftext |-> 0]],
      [key |-> <<"raw_data/", "summary_", "120000", ".json">>, age |-> 1, readable |-> TRUE,
       post_data |-> [content |-> 12, title |-> 0, selftext |-> 0]] }

\* listings of at most MaxObjects objects with distinct keys
Listings ==
    {l \in SeqsUpTo(ObjectSamples, MaxObjects) :
        \A i, j \in 1..Len(l) : i # j => l[i].key # l[j].key}

\* the model identifiers of the two paths: the defaults and every family
ModelConfigs ==
    { <<LLAMA_DEFAULT, CLAUDE_DEFAULT>>, <<CLAUDE_DEFAULT, LLAMA_DEFAULT>>,
      <<TITAN_ID, TITAN_ID>>, <<OTHER_ID, OTHER_ID>> }

CategorizationResponses ==
    { [kind |-> "ClientError", raw |-> <<>>],
      [kind |-> "no_field", raw |-> <<>>],
      [kind |-> "no_text", raw |-> <<>>],
      [kind |-> "ok", raw |-> <<LBrace, FullAnswer, RBrace>>],
      [kind |-> "ok", raw |-> <<Word("Good")>>],
      [kind |-> "ok", raw |-> <<LBrace,
                                Frag([EmptyDict EXCEPT !["confidence"] = Str("high")]),
                                RBrace>>] }

\* utcnow() at the report write: two instants of one second, a later one and
\* the same time of day one day later
Instants ==
    { [date |-> "2026-01-05", hms |-> "120000", micro |-> 0],
      [date |-> "2026-01-05", hms |-> "120000", micro |-> 500000],
      [date |-> "2026-01-05", hms |-> "120001", micro |-> 0],
      [date |-> "2026-01-06", hms |-> "120000", micro |-> 0] }

\* f"reports/{now:%Y-%m-%d}/analysis-{now:%H%M%S}.json"
result_key(now) == <<"reports/", now.date, "/analysis-", now.hms, ".json">>

Init ==
    /\ pc = "start"
    /\ bucket_name \in {Missing, "", "test-bucket"}
    /\ \E config \in ModelConfigs :
        /\ CATEGORIZATION_MODEL_ID = config[1]
        /\ SUMMARIZATION_MODEL_ID = config[2]
    /\ objects \in Listings
    /\ text_files = <<>>
    /\ idx = 0
    /\ sentiment_analyses = <<>>
    /\ texts_for_summarization = <<>>
    /\ summarization_result = None
    /\ categorization = None
    /\ response = None
    /\ trace = <<>>
    /\ fn_arg = None
    /\ fn_ret = None

\* lines 717-726
ErrorResponse_untimed(message) ==
    [statusCode |-> 500, body |-> [status |-> "error", message |-> message]]
ErrorResponse(message) ==
    [statusCode |-> 500,
     body |-> [status |-> "error", message |-> message, timestamp |-> "utcnow"]]

\* lines 606-621
EmptyResponse ==
    [statusCode |-> 200,
     body |-> [status |-> "success",
               message |-> "No text files found in the last week",
               timestamp |-> "utcnow",
               bucket_name |-> bucket_name,
               categorization |-> [total_texts_analyzed |-> 0,
                                   overall_sentiment |-> "N/A"],
               summarization |-> [total_texts_summarized |-> 0]]]

\* `not bucket_name`
bucket_unset_only(name) == name = Missing
bucket_unset(name) == name \in {Missing, ""}

\* line 597
CheckBucket_lenient ==
    /\ pc = "start"
    /\ IF bucket_unset(bucket_name)
       THEN /\ response' = EmptyResponse
            /\ pc' = "done"
       ELSE /\ pc' = "discover"
            /\ UNCHANGED response
    /\ UNCHANGED <<bucket_name, CATEGORIZATION_MODEL_ID, SUMMARIZATION_MODEL_ID,
                   objects, text_files, idx, sentiment_analyses,
                   texts_for_summarization, summarization_result, categorization,
                   trace, fnVars>>
CheckBucket ==
    /\ pc = "start"
    /\ IF bucket_unset(bucket_name)
       THEN /\ response' = ErrorResponse("BUCKET_NAME environment variable is not set")
            /\ pc' = "done"
       ELSE /\ pc' = "discover"
            /\ UNCHANGED response
    /\ UNCHANGED <<bucket_name, CATEGORIZATION_MODEL_ID, SUMMARIZATION_MODEL_ID,
                   objects, text_files, idx, sentiment_analyses,
                   texts_for_summarization, summarization_result, categorization,
                   trace, fnVars>>

\* `not text_files`
no_text_files_never(files) == FALSE
no_text_files(files) == files = <<>>

\* lines 600-621: discovery; the listing itself may raise, which the handler's
\* outer except turns into the error response
Discover ==
    /\ pc = "discover"
    /\ \E listed \in BOOLEAN :
        IF ~listed
        THEN /\ trace' = Append(trace, Raised(ListCall))
             /\ response' = ErrorResponse("Error listing S3 objects")
             /\ pc' = "done"
             /\ UNCHANGED text_files
        ELSE LET found == get_text_files_from_last_week(objects, Len(objects))
             IN  /\ trace' = <<ListCall>> \o get_object_calls(objects, Len(objects))
                 /\ text_files' = found
                 /\ IF no_text_files(found)
                    THEN response' = EmptyResponse /\ pc' = "done"
                    ELSE UNCHANGED response /\ pc' = "loop"
    /\ UNCHANGED <<bucket_name, CATEGORIZATION_MODEL_ID, SUMMARIZATION_MODEL_ID,
                   objects, idx, sentiment_analyses, texts_for_summarization,
                   summarization_result, categorization, fnVars>>

\* lines 631-635
submitted_text_at_limit(content) ==
    IF text_len(content) >= MAX_LENGTH
    THEN text_ellipsis(text_prefix(content, MAX_LENGTH))
    ELSE content
submitted_text(content) ==
    IF text_len(content) > MAX_LENGTH
    THEN text_ellipsis(text_prefix(content, MAX_LENGTH))
    ELSE content

\* lines 638-641: sentiment_analyses after one pass of the loop body, where
\* analysis is what categorize_sentiment_with_bedrock returned or raised
analyses_after_zero_filled(analyses, file_info, analysis) ==
    Append(analyses,
           [sentiment |-> IF IsRaise(analysis) THEN "NEUTRAL" ELSE analysis.sentiment,
            confidence |-> IF IsRaise(analysis) THEN 0 ELSE analysis.confidence,
            reasoning |-> IF IsRaise(analysis) THEN Missing ELSE analysis.reasoning,
            file_key |-> file_info.key,
            file_last_modified |-> file_info.last_modified])
analyses_after(analyses, file_info, analysis) ==
    IF IsRaise(analysis) THEN analyses
    ELSE Append(analyses,
                [sentiment |-> analysis.sentiment,
                 confidence |-> analysis.confidence,
                 reasoning |-> analysis.reasoning,
                 file_key |-> file_info.key,
                 file_last_modified |-> file_info.last_modified])

\* line 645: texts_for_summarization after one pass of the loop body
texts_after_attempted(texts, text, analysis) ==
    Append(texts, text_prefix(text, EXCERPT_LENGTH))
texts_after(texts, text, analysis) ==
    IF IsRaise(analysis) THEN texts
    ELSE Append(texts, text_prefix(text, EXCERPT_LENGTH))

\* lines 628-650: one pass of the loop
CategorizeItem ==
    /\ pc = "loop"
    /\ idx < Len(text_files)
    /\ \E bedrock \in CategorizationResponses :
        LET file_info == text_files[idx + 1]
            text == submitted_text(file_info.content)
            analysis == categorize_sentiment_with_bedrock(text, CATEGORIZATION_MODEL_ID,
                                                          bedrock)
            request == Answered(categorize_request(text, CATEGORIZATION_MODEL_ID),
                                bedrock)
        IN  /\ trace' = Append(trace, IF IsRaise(analysis) THEN Raised(request)
                                      ELSE request)
            /\ sentiment_analyses' = analyses_after(sentiment_analyses, file_info, analysis)
            /\ texts_for_summarization' = texts_after(texts_for_summarization, text,
                                                      analysis)
    /\ idx' = idx + 1
    /\ UNCHANGED <<pc, bucket_name, CATEGORIZATION_MODEL_ID, SUMMARIZATION_MODEL_ID,
                   objects, text_files, summarization_result, categorization,
                   response, fnVars>>

\* lines 662-668
summarization_error_result_zero(texts) ==
    [summary |-> Str("Error during summarization"),
     main_themes |-> List("", 0), key_insights |-> List("", 0),
     overall_tone |-> Str("Error"), total_texts_summarized |-> 0]
summarization_error_result(texts) ==
    [summary |-> Str("Error during summarization"),
     main_themes |-> List("", 0), key_insights |-> List("", 0),
     overall_tone |-> Str("Error"), total_texts_summarized |-> Len(texts)]

\* lines 670-676
NO_TEXTS_RESULT ==
    [summary |-> Str("No texts available for summarization"),
     main_themes |-> List("", 0), key_insights |-> List("", 0),
     overall_tone |-> Str("N/A"), total_texts_summarized |-> 0]

\* `if texts_for_summarization:`
should_summarize_always(texts) == TRUE
should_summarize(texts) == texts # <<>>

\* lines 652-676: after the loop, the one summarization call
Summarize ==
    /\ pc = "loop"
    /\ idx = Len(text_files)
    /\ IF should_summarize(texts_for_summarization)
       THEN \E bedrock \in SummarizationResponses :
            LET summary == summarize_texts_with_bedrock(texts_for_summarization,
                                                        SUMMARIZATION_MODEL_ID, bedrock)
                request == Answered(summarize_request(texts_for_summarization,
                                                      SUMMARIZATION_MODEL_ID),
                                    bedrock)
            IN  IF IsRaise(summary)
                THEN /\ trace' = Append(trace, Raised(request))
                     /\ summarization_result' =
                            summarization_error_result(texts_for_summarization)
                ELSE /\ trace' = Append(trace, request)
                     /\ summarization_result' = summary
       ELSE /\ summarization_result' = NO_TEXTS_RESULT
            /\ UNCHANGED trace
    /\ pc' = "aggregate"
    /\ UNCHANGED <<bucket_name, CATEGORIZATION_MODEL_ID, SUMMARIZATION_MODEL_ID,
                   objects, text_files, idx, sentiment_analyses,
                   texts_for_summarization, categorization, response, fnVars>>

\* lines 678-679
Aggregate_before_summarization ==
    /\ pc = "loop"
    /\ idx = Len(text_files)
    /\ categorization = None
    /\ categorization' = categorize_sentiments(sentiment_analyses)
    /\ UNCHANGED <<pc, bucket_name, CATEGORIZATION_MODEL_ID, SUMMARIZATION_MODEL_ID,
                   objects, text_files, idx, sentiment_analyses,
                   texts_for_summarization, summarization_result, response,
                   trace, fnVars>>
Aggregate ==
    /\ pc = "aggregate"
    /\ categorization' = categorize_sentiments(sentiment_analyses)
    /\ pc' = "persist"
    /\ UNCHANGED <<bucket_name, CATEGORIZATION_MODEL_ID, SUMMARIZATION_MODEL_ID,
                   objects, text_files, idx, sentiment_analyses,
                   texts_for_summarization, summarization_result, response,
                   trace, fnVars>>

\* lines 682-693
result_of(categorized, summarized) ==
    [status |-> "success",
     message |-> "Categorization and summarization completed",
     timestamp |-> "utcnow",
     bucket_name |-> bucket_name,
     models_used |-> [categorization_model |-> CATEGORIZATION_MODEL_ID,
                      summarization_model |-> SUMMARIZATION_MODEL_ID],
     categorization |-> categorized,
     summarization |-> summarized]

\* lines 696-715: the response after the write returned (stored) or raised
save_results_raising(result, key, stored) ==
    IF stored
    THEN [statusCode |-> 200, body |-> ("s3_result_key" :> key) @@ result]
    ELSE ErrorResponse("S3 error")
save_results(result, key, stored) ==
    IF stored
    THEN [statusCode |-> 200, body |-> ("s3_result_key" :> key) @@ result]
    ELSE [statusCode |-> 200, body |-> ("s3_error" :> "S3 error") @@ result]

\* lines 695-715
Persist ==
    /\ pc = "persist"
    /\ \E now \in Instants, stored \in BOOLEAN :
        LET key == result_key(now)
        IN  /\ trace' = Append(trace, IF stored THEN PutCall(key) ELSE Raised(PutCall(key)))
            /\ response' = save_results(result_of(categorization, summarization_result),
                                        key, stored)
    /\ pc' = "done"
    /\ UNCHANGED <<bucket_name, CATEGORIZATION_MODEL_ID, SUMMARIZATION_MODEL_ID,
                   objects, text_files, idx, sentiment_analyses,
                   texts_for_summarization, summarization_result, categorization,
                   fnVars>>

(***************************************************************************)
(* The notifier (emailer.lambda_handler), invoked once the analyzer has    *)
(* returned, on the store as the analyzer's writes left it.                *)
(***************************************************************************)
SUMMARY_KEY == <<"summaries/", "all_categories_summary", ".txt">>

\* the text under key, "" when the read fails (no object was written there)
read_text_from_s3(calls, key) ==
    IF \E i \in 1..Len(calls) :
            /\ calls[i].call = "put_object"
            /\ calls[i].outcome = "returned"
            /\ calls[i].key = key
    THEN "stored text"
    ELSE ""

emailer_response(code, status, message) ==
    [statusCode |-> code,
     body |-> [status |-> status, message |-> message, timestamp |-> "utcnow"]]

\* emailer.lambda_handler, sent telling whether the mail service accepted
emailer_lambda_handler(bucket, calls, sent) ==
    IF bucket_unset(bucket)
    THEN emailer_response(500, "error", "BUCKET_NAME environment variable not set")
    ELSE IF read_text_from_s3(calls, SUMMARY_KEY) = ""
         THEN emailer_response(404, "error", "Summary file not found or empty")
         ELSE IF sent
              THEN emailer_response(200, "success", "Email sent successfully")
              ELSE emailer_response(500, "error", "RequestException")

Notify ==
    /\ pc = "done"
    /\ fn_ret = None
    /\ \E sent \in BOOLEAN :
        fn_ret' = [fn |-> "emailer.lambda_handler",
                   val |-> emailer_lambda_handler(bucket_name, trace, sent)]
    /\ UNCHANGED <<handlerVars, fn_arg>>

Next ==
    \/ CheckBucket
    \/ Discover
    \/ CategorizeItem
    \/ Summarize
    \/ Aggregate
    \/ Persist
    \/ Notify

Spec == Init /\ [][Next]_vars

(***************************************************************************)
(* Several invocations writing their reports to one bucket.  fn_arg lists  *)
(* the invocations that reached the report write, each with the instant    *)
(* utcnow() gave it and whether put_object returned; fn_ret is the store   *)
(* under reports/: for each key, the invocation whose report it holds.     *)
(***************************************************************************)
\* s3_client.put_object(Key=key, Body=<report of run>): replaces what the key held
put_object(store, key, run) ==
    {entry \in store : entry.key # key} \cup {[key |-> key, run |-> run]}

InitRuns ==
    /\ HandlerIdle
    /\ fn_arg = <<>>
    /\ fn_ret = {}

\* lines 695-708 of one more invocation, at an instant no other one got
PersistRun ==
    /\ Len(fn_arg) < MaxRuns
    /\ \E now \in Instants, stored \in BOOLEAN :
        /\ \A i \in 1..Len(fn_arg) : fn_arg[i].now # now
        /\ fn_arg' = Append(fn_arg, [now |-> now, key |-> result_key(now),
                                     stored |-> stored])
        /\ fn_ret' = IF stored
                     THEN put_object(fn_ret, result_key(now), Len(fn_arg) + 1)
                     ELSE fn_ret
    /\ UNCHANGED handlerVars

NextRuns == PersistRun

SpecRuns == InitRuns /\ [][NextRuns]_vars

(***************************************************************************)
(*                              PROPERTIES                                 *)
(***************************************************************************)
Abs(x) == IF x < 0 THEN -x ELSE x

\* the spellings of a label that compare equal to it ignoring case
Spellings(l) ==
    CASE l = "POSITIVE" -> {"POSITIVE", "Positive", "positive"}
      [] l = "NEGATIVE" -> {"NEGATIVE", "Negative", "negative"}
      [] l = "NEUTRAL" -> {"NEUTRAL", "Neutral", "neutral"}
      [] l = "MIXED" -> {"MIXED", "Mixed", "mixed"}

NumberWith(analyses, S) ==
    Cardinality({i \in 1..Len(analyses) : analyses[i].sentiment \in S})
NumberWithout(analyses, S) ==
    Cardinality({i \in 1..Len(analyses) : analyses[i].sentiment \notin S})

AggReturned == pc = "idle" /\ fn_ret # None

\* C1: categorize_sentiments counts every result exactly once: under its
\* label compared ignoring case when that is one of the four labels, under
\* NEUTRAL when the label is missing or unrecognized; the four counts sum to
\* total_texts_analyzed, which is the length of the input list.
C1_EachResultCountedOnce ==
    AggReturned =>
        LET d == fn_ret.sentiment_distribution
            AllSpellings == UNION {Spellings(l) : l \in Labels}
        IN  /\ d.positive = NumberWith(fn_arg, Spellings("POSITIVE"))
            /\ d.negative = NumberWith(fn_arg, Spellings("NEGATIVE"))
            /\ d.mixed = NumberWith(fn_arg, Spellings("MIXED"))
            /\ d.neutral = NumberWith(fn_arg, Spellings("NEUTRAL"))
                              + NumberWithout(fn_arg, AllSpellings)
            /\ d.positive + d.negative + d.neutral + d.mixed
                    = fn_ret.total_texts_analyzed
            /\ fn_ret.total_texts_analyzed = Len(fn_arg)

\* a returned call whose input held a lower-case label, an unrecognized label
\* and a result without label
C1_Witness ==
    /\ AggReturned
    /\ Len(fn_arg) >= 3
    /\ \E i \in 1..Len(fn_arg) : fn_arg[i].sentiment = "positive"
    /\ \E i \in 1..Len(fn_arg) : fn_arg[i].sentiment = "angry"
    /\ \E i \in 1..Len(fn_arg) : fn_arg[i].sentiment = Missing
    /\ fn_ret.sentiment_distribution.positive = 1
    /\ fn_ret.sentiment_distribution.neutral = 2

\* C8: with total_texts_analyzed > 0 every percentage is count / total * 100
\* rounded to 2 decimals (within half a hundredth of the exact quotient) and
\* the four sum to 100 within 0.04; with total 0 all four are exactly 0.
PercentageIsRounded(p, count, total) ==
    2 * Abs(p * total - count * 10000) <= total

C8_Percentages ==
    AggReturned =>
        LET d == fn_ret.sentiment_distribution
            p == fn_ret.sentiment_percentages
            total == fn_ret.total_texts_analyzed
        IN  /\ total > 0 =>
                /\ PercentageIsRounded(p.positive, d.positive, total)
                /\ PercentageIsRounded(p.negative, d.negative, total)
                /\ PercentageIsRounded(p.neutral, d.neutral, total)
                /\ PercentageIsRounded(p.mixed, d.mixed, total)
                /\ Abs(p.positive + p.negative + p.neutral + p.mixed - 10000) <= 4
            /\ total = 0 =>
                /\ p.positive = 0 /\ p.negative = 0
                /\ p.neutral = 0 /\ p.mixed = 0

\* two of three results positive: 66.67 and 33.33 percent
C8_Witness ==
    /\ AggReturned
    /\ fn_ret.total_texts_analyzed = 3
    /\ fn_ret.sentiment_percentages.positive = 6667
    /\ fn_ret.sentiment_percentages.negative = 3333

\* C9: the overall sentiment is the first label in the order POSITIVE,
\* NEGATIVE, NEUTRAL, MIXED whose count is the maximum count, and every
\* permutation of the input list gives the same overall label, distribution
\* and percentages.
DistributionOf(report) ==
    <<report.sentiment_distribution.positive, report.sentiment_distribution.negative,
      report.sentiment_distribution.neutral, report.sentiment_distribution.mixed>>

C9_OverallByFixedOrder ==
    AggReturned =>
        LET d == DistributionOf(fn_ret)
            n == Len(fn_arg)
        IN  /\ \E i \in 1..4 :
                /\ fn_ret.overall_sentiment = SENTIMENT_CATEGORIES[LabelOrder[i]]
                /\ \A j \in 1..4 : d[j] <= d[i]
                /\ \A j \in 1..(i - 1) : d[j] < d[i]
            /\ \A perm \in Permutations(1..n) :
                LET other == categorize_sentiments([k \in 1..n |-> fn_arg[perm[k]]])
                IN  /\ other.overall_sentiment = fn_ret.overall_sentiment
                    /\ other.sentiment_distribution = fn_ret.sentiment_distribution
                    /\ other.sentiment_percentages = fn_ret.sentiment_percentages

\* a tie between NEGATIVE and POSITIVE whose first result is the negative one
C9_Witness ==
    /\ AggReturned
    /\ Len(fn_arg) >= 2
    /\ fn_arg[1].sentiment = "Negative"
    /\ fn_ret.sentiment_distribution.positive = fn_ret.sentiment_distribution.negative
    /\ fn_ret.sentiment_distribution.positive > 0
    /\ fn_ret.overall_sentiment = "Positive"

(***************************************************************************)
(* Properties of lambda_handler                                            *)
(***************************************************************************)
Done == pc = "done"
CallsOf(name) == SelectSeq(trace, LAMBDA c : c.call = name)
ListingReturned ==
    \E i \in Calls("list_objects_v2") : trace[i].outcome = "returned"

\* the files among the first n whose categorization call returned
RECURSIVE KeptFiles(_, _, _)
KeptFiles(files, attempts, n) ==
    IF n = 0 THEN <<>>
    ELSE IF attempts[n].outcome = "returned"
         THEN Append(KeptFiles(files, attempts, n - 1), files[n])
         ELSE KeptFiles(files, attempts, n - 1)

\* C2: an eligible input whose categorization call raises contributes nothing
\* to total_texts_analyzed, the distribution, the percentages, the details or
\* the summarization sample; every other eligible input is categorized and
\* counted, and the run ends with status success.
C2_FailedItemsIsolated ==
    (Done /\ text_files # <<>>) =>
        LET attempts == CallsOf("categorize")
            body == response.body
        IN  /\ Len(attempts) = Len(text_files)
            /\ response.statusCode = 200
            /\ body.status = "success"
            /\ LET kept == KeptFiles(text_files, attempts, Len(text_files))
                   report == body.categorization
                   d == report.sentiment_distribution
                   p == report.sentiment_percentages
               IN  /\ report.total_texts_analyzed = Len(kept)
                   /\ d.positive + d.negative + d.neutral + d.mixed = Len(kept)
                   /\ Len(report.details) = Len(kept)
                   /\ IF Len(kept) = 0
                      THEN p.positive + p.negative + p.neutral + p.mixed = 0
                      ELSE /\ PercentageIsRounded(p.positive, d.positive, Len(kept))
                           /\ PercentageIsRounded(p.negative, d.negative, Len(kept))
                           /\ PercentageIsRounded(p.neutral, d.neutral, Len(kept))
                           /\ PercentageIsRounded(p.mixed, d.mixed, Len(kept))
                   /\ Len(sentiment_analyses) = Len(kept)
                   /\ \A i \in 1..Len(kept) :
                        sentiment_analyses[i].file_key = kept[i].key
                   /\ Len(texts_for_summarization) = Len(kept)
                   /\ \A i \in 1..Len(kept) :
                        texts_for_summarization[i].src = kept[i].content.src
                   /\ \A i \in Calls("summarize") :
                        trace[i].texts = texts_for_summarization

\* a finished run of two eligible inputs, the first of which failed
C2_Witness ==
    /\ Done
    /\ Len(text_files) = 2
    /\ CallsOf("categorize")[1].outcome = "raised"
    /\ CallsOf("categorize")[2].outcome = "returned"
    /\ response.body.categorization.total_texts_analyzed = 1

\* C3: when discovery yields no eligible input the handler returns 200 /
\* success with total_texts_analyzed 0, overall_sentiment "N/A" and
\* total_texts_summarized 0, having invoked no model and written nothing.
C3_EmptyDiscovery ==
    (Done /\ ListingReturned /\ text_files = <<>>) =>
        /\ response.statusCode = 200
        /\ response.body.status = "success"
        /\ response.body.categorization.total_texts_analyzed = 0
        /\ response.body.categorization.overall_sentiment = "N/A"
        /\ response.body.summarization.total_texts_summarized = 0
        /\ Calls("categorize") = {}
        /\ Calls("summarize") = {}
        /\ Calls("put_object") = {}

\* a store that lists objects none of which is eligible
C3_Witness ==
    /\ Done
    /\ ListingReturned
    /\ objects # <<>>
    /\ text_files = <<>>
    /\ response.statusCode = 200

C5_WriteFailureIsNotFatal ==
    (Done /\ Calls("put_object") # {}) =>
        LET put == CallsOf("put_object")[1]
            body == response.body
        IN  /\ response.statusCode = 200
            /\ body.status = "success"
            /\ body.categorization = categorization
            /\ body.summarization = summarization_result
            /\ put.outcome = "raised" =>
                    "s3_error" \in DOMAIN body /\ "s3_result_key" \notin DOMAIN body
            /\ put.outcome = "returned" =>
                    /\ "s3_result_key" \in DOMAIN body
                    /\ "s3_error" \notin DOMAIN body
                    /\ body.s3_result_key = put.key

C5_Witness ==
    /\ Done
    /\ Calls("put_object") # {}
    /\ CallsOf("put_object")[1].outcome = "raised"
    /\ "s3_error" \in DOMAIN response.body
    /\ response.body.categorization.total_texts_analyzed > 0

\* C6: when the summarization call raises the run is not aborted: status
\* success, an error marker as summary, empty theme and insight lists,
\* total_texts_summarized equal to the number of texts offered (not zero), and
\* the aggregate of the categorized inputs as without the failure.
C6_SummarizationFailureDegrades ==
    (Done /\ \E i \in Calls("summarize") : trace[i].outcome = "raised") =>
        LET request == CallsOf("summarize")[1]
            body == response.body
        IN  /\ response.statusCode = 200
            /\ body.status = "success"
            /\ body.summarization.summary = Str("Error during summarization")
            /\ body.summarization.main_themes = List("", 0)
            /\ body.summarization.key_insights = List("", 0)
            /\ body.summarization.total_texts_summarized = request.total
            /\ request.total = Len(texts_for_summarization)
            /\ request.total > 0
            /\ body.categorization = categorize_sentiments(sentiment_analyses)
            /\ body.categorization.total_texts_analyzed
                    = Cardinality({i \in Calls("categorize") :
                                        trace[i].outcome = "returned"})

C6_Witness ==
    /\ Done
    /\ \E i \in Calls("summarize") : trace[i].outcome = "raised"
    /\ response.body.summarization.total_texts_summarized = 2
    /\ response.body.categorization.total_texts_analyzed = 2

(***************************************************************************)
(* Properties of summarize_texts_with_bedrock and of the parsers           *)
(***************************************************************************)
SumReturned ==
    pc = "idle" /\ fn_ret # None /\ fn_ret.fn = "summarize_texts_with_bedrock"

\* C7: the consolidated prompt holds exactly the first min(50, n) texts in
\* their given order, and total_texts_summarized of the result is n, for
\* every model family.
C7_PromptCappedTotalTrue ==
    SumReturned =>
        LET n == Len(fn_arg.texts)
            sent == fn_ret.request.texts
        IN  /\ Len(sent) = IF n <= 50 THEN n ELSE 50
            /\ \A i \in 1..Len(sent) : sent[i] = fn_arg.texts[i]
            /\ ~IsRaise(fn_ret.val) => fn_ret.val.total_texts_summarized = n

C7_Witness ==
    /\ SumReturned
    /\ Len(fn_arg.texts) = 52
    /\ Len(fn_ret.request.texts) = 50
    /\ ~IsRaise(fn_ret.val)
    /\ fn_ret.val.total_texts_summarized = 52
    /\ fn_arg.model_id = "mistral.mistral-7b-instruct-v0:2"

ParserReturned ==
    pc = "idle" /\ fn_ret # None
    /\ fn_ret.fn \in {"_parse_categorization_response", "_parse_summarization_response"}

\* C10: neither response parser ever raises: for every raw model output,
\* including JSON with a non-string sentiment or a non-numeric confidence,
\* both return a result.
C10_ParsersNeverRaise ==
    ParserReturned => ~IsRaise(fn_ret.val)

CategorizationParsed ==
    /\ pc = "idle" /\ fn_ret # None
    /\ fn_ret.fn = "_parse_categorization_response"
    /\ ~IsRaise(fn_ret.val)

\* C11: every result the categorization parser returns, on the decode path
\* and on the fallback path, has a sentiment that is one of the four labels,
\* a confidence in [0, 1] and a reasoning.
C11_ResultWellFormed ==
    CategorizationParsed =>
        /\ fn_ret.val.sentiment \in {"POSITIVE", "NEGATIVE", "NEUTRAL", "MIXED"}
        /\ fn_ret.val.confidence >= 0
        /\ fn_ret.val.confidence <= 100
        /\ fn_ret.val.reasoning # Missing

\* the text has a '{' that a '}' follows
HasBracePair(text) ==
    \E i, j \in 1..Len(text) : i < j /\ text[i].kind = "{" /\ text[j].kind = "}"
\* between the first '{' and the last '}' stands something that is not a
\* JSON member
BracesHoldNoJson(text) ==
    \E i, j, k \in 1..Len(text) :
        /\ i < k /\ k < j
        /\ text[i].kind = "{" /\ \A h \in 1..(i - 1) : text[h].kind # "{"
        /\ text[j].kind = "}" /\ \A h \in (j + 1)..Len(text) : text[h].kind # "}"
        /\ text[k].kind # "members"
Mentions(text, words) ==
    \E i \in 1..Len(text) : \E str \in token_strings(text[i]) : \E w \in words :
        contains(lower(str), w)

\* C12: for a raw text without a '{' followed by a '}', or whose braces hold
\* no valid JSON, the categorization parser returns the fallback of the first
\* matching branch: a positive keyword gives POSITIVE 0.7, else a negative
\* keyword NEGATIVE 0.7, else a mixed keyword MIXED 0.6, else NEUTRAL 0.5; the
\* reasoning notes the fallback.
C12_FallbackBranchOrder ==
    (/\ pc = "idle" /\ fn_ret # None
     /\ fn_ret.fn = "_parse_categorization_response"
     /\ ~HasBracePair(fn_arg.text) \/ BracesHoldNoJson(fn_arg.text)) =>
        LET text == fn_arg.text
            positive == Mentions(text, {"positive", "good", "great", "excellent", "happy"})
            negative == Mentions(text, {"negative", "bad", "poor", "terrible", "sad"})
            mixed == Mentions(text, {"mixed", "both", "conflicting"})
        IN  /\ ~IsRaise(fn_ret.val)
            /\ fn_ret.val.reasoning = "Parsed from text response (JSON parsing failed)"
            /\ positive =>
                    fn_ret.val.sentiment = "POSITIVE" /\ fn_ret.val.confidence = 70
            /\ ~positive /\ negative =>
                    fn_ret.val.sentiment = "NEGATIVE" /\ fn_ret.val.confidence = 70
            /\ ~positive /\ ~negative /\ mixed =>
                    fn_ret.val.sentiment = "MIXED" /\ fn_ret.val.confidence = 60
            /\ ~positive /\ ~negative /\ ~mixed =>
                    fn_ret.val.sentiment = "NEUTRAL" /\ fn_ret.val.confidence = 50

\* an unclosed brace, a negative and a positive keyword: the positive branch
C12_Witness ==
    /\ CategorizationParsed
    /\ fn_arg.text = <<LBrace, Word("sadly"), Word("Good")>>
    /\ fn_ret.val.sentiment = "POSITIVE"
    /\ fn_ret.val.confidence = 70

\* C13: a model call that succeeds but whose response lacks the family's
\* expected field, or holds it empty, raises to the caller for every family,
\* so the loop skips the item.
C13_MissingFieldRaises ==
    \A i \in 1..Len(trace) :
        (trace[i].call = "categorize" /\ trace[i].response \in {"no_field", "no_text"})
            => trace[i].outcome = "raised"

\* C14: no categorization call is made with an empty text.
C14_NoCallOnEmptyText ==
    \A i \in 1..Len(trace) :
        trace[i].call = "categorize" => text_len(trace[i].texts[1]) > 0

Discovered == pc \in {"loop", "aggregate", "persist", "done"} /\ ListingReturned
\* the positions of the listing that discovery has to return
Eligible ==
    {i \in 1..Len(objects) :
        /\ objects[i].age <= 7
        /\ objects[i].key[Len(objects[i].key)] = ".json"
        /\ \A k \in 1..Len(objects[i].key) : objects[i].key[k] \notin {"summary", "summary_"}
        /\ objects[i].readable}

\* C15: discovery returns exactly the listed objects modified within the last
\* 7 days whose key ends in .json and does not contain 'summary' and whose
\* body could be read, in listing order; an unreadable object is skipped.
C15_DiscoveryFilter ==
    Discovered =>
        /\ {text_files[j].content.src : j \in 1..Len(text_files)} = Eligible
        /\ \A j \in 1..Len(text_files) :
                text_files[j].key = objects[text_files[j].content.src].key
        /\ \A j, k \in 1..Len(text_files) :
                j < k => text_files[j].content.src < text_files[k].content.src

\* an unreadable post is listed before a post modified exactly 7 days ago:
\* the first is skipped and the second returned
C15_Witness ==
    /\ Discovered
    /\ Len(objects) = 2
    /\ ~objects[1].readable /\ objects[1].age <= 7
    /\ objects[2].age = 7
    /\ Len(text_files) = 1
    /\ text_files[1].key = objects[2].key

\* the categorization calls made so far, and those that returned
CategorizeCalls == CallsOf("categorize")
ReturnedCategorizeCalls ==
    SelectSeq(CategorizeCalls, LAMBDA c : c.outcome = "returned")

\* C16: the text submitted for an eligible input is its content when that has
\* at most 5000 characters and else its first 5000 characters followed by
\* "..."; the excerpt kept for summarization is the first 1000 characters of
\* the submitted text, so no excerpt is longer than 1000 characters.
C16_Truncation ==
    /\ \A k \in 1..Len(CategorizeCalls) :
            LET original == text_files[k].content
                sent == CategorizeCalls[k].texts[1]
            IN  IF original.len <= 5000
                THEN sent = original
                ELSE sent = [src |-> original.src, len |-> 5000, dots |-> 3]
    /\ Len(texts_for_summarization) = Len(ReturnedCategorizeCalls)
    /\ \A k \in 1..Len(texts_for_summarization) :
            LET sent == ReturnedCategorizeCalls[k].texts[1]
                excerpt == texts_for_summarization[k]
            IN  /\ excerpt.src = sent.src
                /\ excerpt.len + excerpt.dots <= 1000
                /\ IF sent.len + sent.dots <= 1000
                   THEN excerpt = sent
                   ELSE excerpt.len + excerpt.dots = 1000 /\ excerpt.len <= sent.len

\* a post of 5007 characters is sent as 5000 characters and "...", and its
\* excerpt has 1000 characters
C16_Witness ==
    /\ Len(texts_for_summarization) >= 1
    /\ Len(ReturnedCategorizeCalls) = Len(CategorizeCalls)
    /\ \E k \in 1..Len(ReturnedCategorizeCalls) :
            /\ text_files[k].content.len = 5007
            /\ ReturnedCategorizeCalls[k].texts[1] =
                    [src |-> text_files[k].content.src, len |-> 5000, dots |-> 3]
            /\ texts_for_summarization[k].len = 1000
            /\ texts_for_summarization[k].dots = 0

\* the family the identifier's prefix stands for, fallback for any other
FamilyByPrefix(model_id, fallback) ==
    CASE model_id = "anthropic.claude-3-sonnet-20240229-v1:0" -> "claude"
      [] model_id = "meta.llama3-8b-instruct-v1:0" -> "llama"
      [] model_id = "amazon.titan-text-express-v1" -> "titan"
      [] OTHER -> fallback

\* C17: the request of every model call is built by the family of the
\* identifier's prefix (anthropic.claude, meta.llama, amazon.titan), any
\* other identifier going to the instruction-completion family on the
\* categorization path and to the chat family on the summarization path; the
\* response is read by the same family: a body without the family's field
\* raises for the chat and single-shot readers and not for the
\* instruction-completion reader.
C17_DispatchByPrefix ==
    \A i \in 1..Len(trace) :
        LET c == trace[i]
            family == IF c.call = "categorize" THEN FamilyByPrefix(c.model_id, "llama")
                      ELSE FamilyByPrefix(c.model_id, "claude")
        IN  c.call \in {"categorize", "summarize"} =>
                /\ c.family = family
                /\ c.response = "no_field" =>
                        (c.outcome = "raised" <=> family \in {"claude", "titan"})

\* an identifier of no known family: the categorization reader accepts a body
\* without its field, the summarization reader raises on it
C17_Witness ==
    \E i, j \in 1..Len(trace) :
        /\ trace[i].call = "categorize" /\ trace[j].call = "summarize"
        /\ trace[i].model_id = OTHER_ID /\ trace[j].model_id = OTHER_ID
        /\ trace[i].family = "llama" /\ trace[j].family = "claude"
        /\ trace[i].response = "no_field" /\ trace[i].outcome = "returned"
        /\ trace[j].response = "no_field" /\ trace[j].outcome = "raised"

RaisedCalls(name) == {i \in 1..Len(trace) : trace[i].call = name /\ trace[i].outcome = "raised"}

\* C18: the handler returns 200 with status "success" or 500 with status
\* "error", with a timestamp; it returns 500 exactly when the bucket is not
\* set or the store listing raised, so a categorization, summarization or
\* write that raised leaves the outcome at 200.
C18_OutcomeIsSuccessOrError ==
    Done =>
        /\ \/ response.statusCode = 200 /\ response.body.status = "success"
           \/ response.statusCode = 500 /\ response.body.status = "error"
        /\ "timestamp" \in DOMAIN response.body
        /\ response.statusCode = 500 <=>
                \/ bucket_name \in {Missing, ""}
                \/ RaisedCalls("list_objects_v2") # {}
        /\ (RaisedCalls("categorize") \cup RaisedCalls("summarize")
                \cup RaisedCalls("put_object")) # {} => response.statusCode = 200

\* a run in which a categorization, the summarization and the write raised
C18_Witness ==
    /\ Done
    /\ RaisedCalls("categorize") # {}
    /\ RaisedCalls("summarize") # {}
    /\ RaisedCalls("put_object") # {}
    /\ response.statusCode = 200
    /\ response.body.status = "success"

Notified == fn_ret # None /\ fn_ret.fn = "emailer.lambda_handler"

\* C19: once a run has returned success after summarizing at least one item,
\* its summary is stored under summaries/all_categories_summary.txt, and the
\* notifier invoked next finds it and does not answer 404.
C19_SummaryReachesNotifier ==
    (/\ Done /\ Notified
     /\ response.statusCode = 200
     /\ \E i \in 1..Len(trace) :
            trace[i].call = "summarize" /\ trace[i].outcome = "returned") =>
        /\ \E i \in 1..Len(trace) :
                /\ trace[i].call = "put_object"
                /\ trace[i].outcome = "returned"
                /\ trace[i].key = <<"summaries/", "all_categories_summary", ".txt">>
        /\ fn_ret.val.statusCode # 404

\* C20: nothing is retried.  The categorization model is invoked once per
\* eligible input, in order, whether the call returns or raises; the
\* summarization model is invoked at most once, and only after a
\* categorization returned; the report write is attempted once when there is
\* an eligible input, and the run ends with exactly these calls made.
C20_NoRetry ==
    /\ Len(CategorizeCalls) <= Len(text_files)
    /\ \A k \in 1..Len(CategorizeCalls) :
            CategorizeCalls[k].texts[1].src = text_files[k].content.src
    /\ Len(CallsOf("summarize")) <= 1
    /\ Len(CallsOf("summarize")) = 1 => Len(ReturnedCategorizeCalls) >= 1
    /\ Len(CallsOf("put_object")) <= 1
    /\ Done =>
        /\ Len(CategorizeCalls) = Len(text_files)
        /\ Len(ReturnedCategorizeCalls) >= 1 => Len(CallsOf("summarize")) = 1
        /\ Len(text_files) >= 1 <=> Len(CallsOf("put_object")) = 1

\* a finished run over two inputs: the first call raised and the second
\* returned, then one summarization and one write
C20_Witness ==
    /\ Done
    /\ Len(text_files) = 2
    /\ Len(CategorizeCalls) = 2
    /\ CategorizeCalls[1].outcome = "raised"
    /\ CategorizeCalls[2].outcome = "returned"
    /\ Len(CallsOf("summarize")) = 1
    /\ Len(CallsOf("put_object")) = 1

\* C21: invocations that stored their report did so under pairwise distinct
\* keys, and the store still holds the report of each of them.
C21_DistinctReportKeys ==
    /\ \A i, j \in 1..Len(fn_arg) :
            (i # j /\ fn_arg[i].stored /\ fn_arg[j].stored)
                => fn_arg[i].key # fn_arg[j].key
    /\ \A i \in 1..Len(fn_arg) :
            fn_arg[i].stored => [key |-> fn_arg[i].key, run |-> i] \in fn_ret

\* the keys of the files whose categorization call returned, in loop order
RECURSIVE CategorizedKeys(_)
CategorizedKeys(n) ==
    IF n = 0 THEN <<>>
    ELSE IF CategorizeCalls[n].outcome = "returned"
         THEN Append(CategorizedKeys(n - 1), text_files[n].key)
         ELSE CategorizedKeys(n - 1)

\* C22: the details of the aggregate have one entry per input whose
\* categorization returned, in processing order, and each entry carries the
\* key of the input it was produced from.
C22_DetailsTraceToInputs ==
    (pc \in {"persist", "done"} /\ categorization # None) =>
        LET details == categorization.details
            keys == CategorizedKeys(Len(CategorizeCalls))
        IN  /\ Len(details) = Len(keys)
            /\ \A k \in 1..Len(details) :
                    /\ "file_key" \in DOMAIN details[k]
                    /\ details[k].file_key = keys[k]

SummarizationParsed ==
    /\ pc = "idle" /\ fn_ret # None
    /\ fn_ret.fn = "_parse_summarization_response"

\* the positions of the JSON members that supply key, between the first '{'
\* and the last '}'
Supplying(text, key) ==
    {p \in 1..Len(text) :
        /\ text[p].kind = "members"
        /\ text[p].frag[key].t # "absent"
        /\ \E i \in 1..(p - 1) : text[i].kind = "{"
        /\ \E j \in (p + 1)..Len(text) : text[j].kind = "}"}
LastOf(positions) == CHOOSE p \in positions : \A q \in positions : q <= p
SummaryDefault(text, key) ==
    CASE key = "summary" -> [t |-> "text", s |-> "", n |-> 0, raw |-> text]
      [] key = "overall_tone" -> [t |-> "str", s |-> "Not specified", n |-> 0, raw |-> <<>>]
      [] OTHER -> [t |-> "list", s |-> "", n |-> 0, raw |-> <<>>]

\* C24: the summarization parser returns, for every raw text and count, an
\* object with summary, main_themes, key_insights, overall_tone and
\* total_texts_summarized.  When the text from the first '{' to the last '}'
\* decodes, each of the first four is the value the model supplied and, where
\* it supplied none, the default (the raw text, [], [], "Not specified");
\* otherwise all four are the defaults.  total_texts_summarized is the count
\* passed in, whatever the model supplied.
C24_SummaryBackfilled ==
    SummarizationParsed =>
        LET text == fn_arg.text
            val == fn_ret.val
            decodes == HasBracePair(text) /\ ~BracesHoldNoJson(text)
        IN  /\ ~IsRaise(val)
            /\ val.total_texts_summarized = fn_arg.total_texts
            /\ \A key \in {"summary", "main_themes", "key_insights", "overall_tone"} :
                    /\ val[key].t # "absent"
                    /\ val[key] = IF decodes /\ Supplying(text, key) # {}
                                  THEN text[LastOf(Supplying(text, key))].frag[key]
                                  ELSE SummaryDefault(text, key)

\* the model supplied a summary, a tone and its own count, and no lists
C24_Witness ==
    /\ SummarizationParsed
    /\ fn_arg.total_texts = 3
    /\ Len(fn_arg.text) = 4
    /\ fn_arg.text[1].kind = "{" /\ fn_arg.text[4].kind = "}"
    /\ fn_arg.text[2].frag.summary.s = "the week"
    /\ fn_arg.text[3].frag.total_texts_summarized.n = 9900
    /\ fn_ret.val.summary.s = "the week"
    /\ fn_ret.val.overall_tone.s = "calm"
    /\ fn_ret.val.main_themes.n = 0
    /\ fn_ret.val.total_texts_summarized = 3

\* the position in trace of the last call of the names, 0 when there is none
LastCall(names) ==
    LET at == {i \in 1..Len(trace) : trace[i].call \in names}
    IN  IF at = {} THEN 0 ELSE CHOOSE i \in at : \A j \in at : j <= i
FirstCall(names) ==
    LET at == {i \in 1..Len(trace) : trace[i].call \in names}
    IN  IF at = {} THEN Len(trace) + 1 ELSE CHOOSE i \in at : \A j \in at : i <= j

\* C25 as stated: the aggregate is computed before the summarization call is
\* made.
C25_AggregateBeforeSummarize ==
    (Calls("summarize") # {} \/ summarization_result # None) => categorization # None

\* C25 amended: the stages run in the order discover, empty check, per-item
\* categorization, summarization, aggregation, persistence, each at most
\* once: the summarization result exists before the aggregate is computed and
\* only after every input was categorized, the report is written after both,
\* and no model call follows the report write.
C25_StageOrder ==
    /\ categorization # None => summarization_result # None
    /\ summarization_result # None => Len(CategorizeCalls) = Len(text_files)
    /\ Calls("put_object") # {} =>
            /\ categorization # None
            /\ summarization_result # None
            /\ LastCall({"put_object"}) = Len(trace)
    /\ Calls("categorize") # {} => FirstCall({"list_objects_v2"}) = 1
    /\ LastCall({"list_objects_v2", "get_object"}) < FirstCall({"categorize"})
    /\ LastCall({"categorize"}) < FirstCall({"summarize"})
    /\ LastCall({"categorize", "summarize"}) < FirstCall({"put_object"})
    /\ Len(CallsOf("list_objects_v2")) <= 1
    /\ Len(CallsOf("summarize")) <= 1
    /\ Len(CallsOf("put_object")) <= 1

\* the summarization call has been made and the aggregate is not yet computed
C25_Witness ==
    /\ pc = "aggregate"
    /\ Calls("summarize") # {}
    /\ Calls("categorize") # {}
    /\ summarization_result # None
    /\ categorization = None

Succeeded == Done /\ response.statusCode = 200

\* C26: in every success response total_texts_summarized equals
\* total_texts_analyzed (the number of inputs whose categorization returned),
\* whichever categorization calls raised, whether or not the summarization
\* call raised, and whatever count the model's summary states.
C26_SummarizedEqualsAnalyzed ==
    Succeeded =>
        /\ response.body.summarization.total_texts_summarized =
                response.body.categorization.total_texts_analyzed
        /\ response.body.categorization.total_texts_analyzed =
                Len(ReturnedCategorizeCalls)

\* one categorization raised, one returned, and the summarization raised
C26_Witness ==
    /\ Succeeded
    /\ RaisedCalls("categorize") # {}
    /\ RaisedCalls("summarize") # {}
    /\ response.body.categorization.total_texts_analyzed = 1
    /\ response.body.summarization.total_texts_summarized = 1

\* C27: a success response with total_texts_analyzed = 0 has overall_sentiment
\* "N/A", whether no input was eligible or every categorization raised.
C27_NoDataIsNotApplicable ==
    (Succeeded /\ response.body.categorization.total_texts_analyzed = 0) =>
        response.body.categorization.overall_sentiment = "N/A"

====
